---------------------------- MODULE Spec2Model ----------------------------
(***************************************************************************)
(* Iroha Special Instructions: the asset instructions (asset.rs), the      *)
(* Contract dispatch, its codec and its projections (isi.rs).              *)
(*                                                                         *)
(* A Rust String is the sequence of its UTF-8 bytes, an Id the pair of its *)
(* two strings.  A panic (Option::unwrap on None, Result::expect on Err)   *)
(* is an outcome of its own: it is not a returned value, and the thread    *)
(* that invoked the instruction does not go on.                            *)
(***************************************************************************)
EXTENDS Integers, Sequences, FiniteSets, TLC

VARIABLES
    world,      \* WorldStateView.world: the domains and the accounts
    pc,         \* "idle" | "returned" | "panicked": where the invoking thread is
    contract,   \* the Contract of the last invoke (NoContract when idle)
    pre,        \* the world as it was when the last invoke was entered
    result,     \* what the last invoke produced: Ok, Err(String) or a panic
    cpc,        \* codec: "input" | "encoded" | "decoded"
    ctype,      \* codec: the type converted ("AddAssetQuantity", ..., "Contract")
    value,      \* codec: the value given to From<&T> for Vec<u8>
    bytes,      \* codec: the Vec<u8>
    decoded,    \* codec: what From<Vec<u8>> for T produced
    relations,  \* what Property::relations gave for contract, once taken
    assets      \* what Assetibility::assets gave for contract, once taken

vars ==
    <<world, pc, contract, pre, result, cpc, ctype, value, bytes, decoded,
      relations, assets>>
execVars == <<world, pc, contract, pre, result>>
codecVars == <<cpc, ctype, value, bytes, decoded>>
projectionVars == <<relations, assets>>

---------------------------------------------------------------------------
(* Bounds and the finite universe of the model.                            *)

\* Longest free-form String (description, asset_name, domain_id) drawn.
MaxStrLen == 1

\* The bytes free-form strings are made of: "a", "b".
Alphabet == {97, 98}

RECURSIVE StrsOfLen(_)
StrsOfLen(n) ==
    IF n = 0 THEN {<<>>}
    ELSE {<<b>> \o s : b \in Alphabet, s \in StrsOfLen(n - 1)}

Strs == UNION {StrsOfLen(n) : n \in 0..MaxStrLen}

\* Id::new(entity_name, domain_name)
Id(entity_name, domain_name) == <<entity_name, domain_name>>

\* Domain names "d", "e".
DomainNames == {<<100>>, <<101>>}

\* Accounts a#d, b#d, alice#e.
AccountIds ==
    {Id(<<97>>, <<100>>), Id(<<98>>, <<100>>),
     Id(<<97, 108, 105, 99, 101>>, <<101>>)}

\* Assets x#d, xor#d.
AssetIds == {Id(<<120>>, <<100>>), Id(<<120, 111, 114>>, <<100>>)}

\* u128 amounts: zero, one byte, the byte boundary, and the tests' two amounts.
Amounts == {0, 255, 256, 2002, 20002}

\* u8 decimals.
Decimals == {0, 2, 255}

---------------------------------------------------------------------------
(* The entities and the world.                                             *)

\* Asset::new(id)
Asset(id) == [id |-> id]

\* HashMap::insert(key, v): inserted if absent, overwritten if present.
MapInsert(m, key, v) ==
    [k \in (DOMAIN m) \cup {key} |-> IF k = key THEN v ELSE m[k]]

\* HashMap::remove(key): the map without the key.
MapRemove(m, key) == [k \in (DOMAIN m) \ {key} |-> m[k]]

EmptyMap == [k \in {} |-> 0]

\* An account with no holdings.
NewAccount == [assets |-> EmptyMap]

\* world.account(id) is Some.
HasAccount(w, id) == id \in DOMAIN w.accounts

\* world.account(id).unwrap().assets
AssetsOf(w, id) == w.accounts[id].assets

\* The world with account id's asset mapping replaced (through the &mut Account).
WithAssets(w, id, m) ==
    [w EXCEPT !.accounts = [@ EXCEPT ![id] = [@ EXCEPT !.assets = m]]]

\* Account id exists and holds an entry keyed g.
Holds(w, id, g) == HasAccount(w, id) /\ g \in DOMAIN AssetsOf(w, id)

\* The (account, asset) holdings of g across the world.
Holders(w, g) == {a \in DOMAIN w.accounts : g \in DOMAIN AssetsOf(w, a)}

---------------------------------------------------------------------------
(* Results.                                                                *)

Ok == [kind |-> "Ok", error |-> <<>>]

\* Err(error): a returned error value.
Err(error) == [kind |-> "Err", error |-> error]

\* An unwinding panic with its message: nothing is returned.
Panic(message) == [kind |-> "Panic", error |-> <<message>>]

\* No invoke has produced anything yet.
NoResult == [kind |-> "None", error |-> <<>>]

\* The error of a Result<(), String>: the String.
StringError(message) == <<message>>

\* The error kinds the specification names, with the Identifier they carry.
EntityNotFound(id) == <<"EntityNotFound", id>>

AssetNotHeld(id) == <<"AssetNotHeld", id>>

UnwrapNone == "called Option::unwrap() on a None value"

NotSupported == "Instruction is not supported yet."

---------------------------------------------------------------------------
(* The instruction payloads and the Contract union.                        *)

AddAssetQuantityPayloads ==
    [asset_id : AssetIds, account_id : AccountIds, amount : Amounts]

CreateAssetPayloads ==
    [asset_name : Strs, domain_id : Strs, decimals : Decimals]

TransferAssetPayloads ==
    [source_account_id : AccountIds, destination_account_id : AccountIds,
     asset_id : AssetIds, description : Strs, amount : Amounts]

\* account::isi::CreateAccount and domain::isi::CreateDomain: what they name.
CreateAccountPayloads == [account_id : AccountIds]

CreateDomainPayloads == [domain_name : DomainNames]

\* The payload of a variant whose type is declared outside asset.rs and isi.rs
\* and that invoke never looks into.
Opaque == <<>>

\* A Contract: the variant's name and its payload.
Contract(variant, payload) == [variant |-> variant, payload |-> payload]

NoContract == Contract("None", Opaque)

\* The variants in declaration order; a variant's index is its place here - 1.
Variants ==
    <<"AddSignatory", "AppendRole", "CreateAccount", "CreateRole",
      "AddAssetQuantity", "TransferAsset", "CreateAsset", "CreateDomain",
      "AddPeer">>

\* The variants invoke has no arm for (they reach the `_` arm).
Unimplemented ==
    {"AddSignatory", "AppendRole", "CreateRole", "CreateAsset", "AddPeer"}

\* From<AddAssetQuantity> for Contract
AddAssetQuantityIntoContract(command_payload) ==
    Contract("AddAssetQuantity", command_payload)

\* From<CreateAsset> for Contract
CreateAssetIntoContract(command_payload) ==
    Contract("CreateAsset", command_payload)

\* From<TransferAsset> for Contract
TransferAssetIntoContract(command_payload) ==
    Contract("TransferAsset", command_payload)

AddAssetQuantityContracts ==
    {AddAssetQuantityIntoContract(p) : p \in AddAssetQuantityPayloads}

TransferAssetContracts ==
    {TransferAssetIntoContract(p) : p \in TransferAssetPayloads}

CreateAssetContracts ==
    {CreateAssetIntoContract(p) : p \in CreateAssetPayloads}

CreateAccountContracts ==
    {Contract("CreateAccount", p) : p \in CreateAccountPayloads}

CreateDomainContracts ==
    {Contract("CreateDomain", p) : p \in CreateDomainPayloads}

OpaqueContracts ==
    {Contract(v, Opaque) : v \in Unimplemented \ {"CreateAsset"}}

\* Every Contract of the model, of every variant.
Contracts ==
    AddAssetQuantityContracts \cup TransferAssetContracts
        \cup CreateAssetContracts \cup CreateAccountContracts
        \cup CreateDomainContracts \cup OpaqueContracts

---------------------------------------------------------------------------
(* Execution.  An execute takes the payload and the world and gives the    *)
(* world it leaves behind together with what it produced.                  *)

Outcome(w, r) == [world |-> w, result |-> r]

\* AddAssetQuantity::execute assigning a fresh one-entry mapping instead of
\* inserting into the account's mapping.
AddAssetQuantityExecuteReplacing(self, w) ==
    IF ~HasAccount(w, self.account_id)
    THEN Outcome(w, Panic(UnwrapNone))
    ELSE Outcome(
            WithAssets(w, self.account_id,
                MapInsert(EmptyMap, self.asset_id, Asset(self.asset_id))),
            Ok)

\* AddAssetQuantity::execute doing nothing for an amount of zero.
AddAssetQuantityExecuteSkippingZero(self, w) ==
    IF ~HasAccount(w, self.account_id)
    THEN Outcome(w, Panic(UnwrapNone))
    ELSE IF self.amount = 0
    THEN Outcome(w, Ok)
    ELSE Outcome(
            WithAssets(w, self.account_id,
                MapInsert(AssetsOf(w, self.account_id), self.asset_id,
                          Asset(self.asset_id))),
            Ok)

\* AddAssetQuantity::execute building the Asset from the account's Id.
AddAssetQuantityExecuteWrongId(self, w) ==
    IF ~HasAccount(w, self.account_id)
    THEN Outcome(w, Panic(UnwrapNone))
    ELSE Outcome(
            WithAssets(w, self.account_id,
                MapInsert(AssetsOf(w, self.account_id), self.asset_id,
                          Asset(self.account_id))),
            Ok)

\* AddAssetQuantity::execute
AddAssetQuantityExecute(self, w) ==
    IF ~HasAccount(w, self.account_id)
    THEN Outcome(w, Panic(UnwrapNone))
    ELSE Outcome(
            WithAssets(w, self.account_id,
                MapInsert(AssetsOf(w, self.account_id), self.asset_id,
                          Asset(self.asset_id))),
            Ok)

\* TransferAsset::execute reading the entry with get instead of remove: the
\* source keeps it.
TransferAssetExecuteCopying(self, w) ==
    IF ~HasAccount(w, self.source_account_id)
    THEN Outcome(w, Panic(UnwrapNone))
    ELSE IF self.asset_id \notin DOMAIN AssetsOf(w, self.source_account_id)
    THEN Outcome(w, Panic(UnwrapNone))
    ELSE IF ~HasAccount(w, self.destination_account_id)
    THEN Outcome(w, Panic(UnwrapNone))
    ELSE Outcome(
            WithAssets(w, self.destination_account_id,
                MapInsert(AssetsOf(w, self.destination_account_id),
                          self.asset_id,
                          AssetsOf(w, self.source_account_id)[self.asset_id])),
            Ok)

\* TransferAsset::execute creating the destination account when it is missing
\* (entry(..).or_insert_with instead of a lookup).
TransferAssetExecuteCreating(self, w) ==
    IF ~HasAccount(w, self.source_account_id)
    THEN Outcome(w, Panic(UnwrapNone))
    ELSE IF self.asset_id \notin DOMAIN AssetsOf(w, self.source_account_id)
    THEN Outcome(w, Panic(UnwrapNone))
    ELSE LET asset == AssetsOf(w, self.source_account_id)[self.asset_id]
             removed ==
                 WithAssets(w, self.source_account_id,
                     MapRemove(AssetsOf(w, self.source_account_id),
                               self.asset_id))
             created ==
                 IF HasAccount(removed, self.destination_account_id)
                 THEN removed
                 ELSE [removed EXCEPT !.accounts =
                          MapInsert(@, self.destination_account_id,
                                    NewAccount)]
         IN  Outcome(
                 WithAssets(created, self.destination_account_id,
                     MapInsert(AssetsOf(created, self.destination_account_id),
                               self.asset_id, asset)),
                 Ok)

\* TransferAsset::execute inserting into the destination before removing
\* from the source.
TransferAssetExecuteInsertFirst(self, w) ==
    IF ~HasAccount(w, self.source_account_id)
    THEN Outcome(w, Panic(UnwrapNone))
    ELSE IF self.asset_id \notin DOMAIN AssetsOf(w, self.source_account_id)
    THEN Outcome(w, Panic(UnwrapNone))
    ELSE IF ~HasAccount(w, self.destination_account_id)
    THEN Outcome(w, Panic(UnwrapNone))
    ELSE LET asset == AssetsOf(w, self.source_account_id)[self.asset_id]
             inserted ==
                 WithAssets(w, self.destination_account_id,
                     MapInsert(AssetsOf(w, self.destination_account_id),
                               self.asset_id, asset))
         IN  Outcome(
                 WithAssets(inserted, self.source_account_id,
                     MapRemove(AssetsOf(inserted, self.source_account_id),
                               self.asset_id)),
                 Ok)

\* TransferAsset::execute
TransferAssetExecute(self, w) ==
    IF ~HasAccount(w, self.source_account_id)
    THEN Outcome(w, Panic(UnwrapNone))
    ELSE IF self.asset_id \notin DOMAIN AssetsOf(w, self.source_account_id)
    THEN Outcome(w, Panic(UnwrapNone))
    ELSE LET asset == AssetsOf(w, self.source_account_id)[self.asset_id]
             removed ==
                 WithAssets(w, self.source_account_id,
                     MapRemove(AssetsOf(w, self.source_account_id),
                               self.asset_id))
         IN  IF ~HasAccount(removed, self.destination_account_id)
             THEN Outcome(removed, Panic(UnwrapNone))
             ELSE Outcome(
                     WithAssets(removed, self.destination_account_id,
                         MapInsert(
                             AssetsOf(removed, self.destination_account_id),
                             self.asset_id, asset)),
                     Ok)

\* CreateAccount::execute: the account is registered, with no holdings, unless
\* an account of that Id exists already.
CreateAccountExecute(self, w) ==
    IF HasAccount(w, self.account_id)
    THEN Outcome(w, Ok)
    ELSE Outcome(
            [w EXCEPT !.accounts =
                [a \in (DOMAIN @) \cup {self.account_id} |->
                    IF a = self.account_id THEN NewAccount ELSE @[a]]],
            Ok)

\* CreateDomain::execute: the domain is registered.
CreateDomainExecute(self, w) ==
    Outcome([w EXCEPT !.domains = @ \cup {self.domain_name}], Ok)

\* Contract::invoke with a `_` arm that succeeds silently.
ContractInvokeSilent(self, w) ==
    CASE self.variant = "AddAssetQuantity" ->
            AddAssetQuantityExecute(self.payload, w)
      [] self.variant = "CreateAccount" ->
            CreateAccountExecute(self.payload, w)
      [] self.variant = "CreateDomain" ->
            CreateDomainExecute(self.payload, w)
      [] self.variant = "TransferAsset" ->
            TransferAssetExecute(self.payload, w)
      [] OTHER -> Outcome(w, Ok)

\* Contract::invoke
ContractInvoke(self, w) ==
    CASE self.variant = "AddAssetQuantity" ->
            AddAssetQuantityExecute(self.payload, w)
      [] self.variant = "CreateAccount" ->
            CreateAccountExecute(self.payload, w)
      [] self.variant = "CreateDomain" ->
            CreateDomainExecute(self.payload, w)
      [] self.variant = "TransferAsset" ->
            TransferAssetExecute(self.payload, w)
      [] OTHER -> Outcome(w, Err(StringError(NotSupported)))

---------------------------------------------------------------------------
(* The codec: parity_scale_codec's Encode and Decode as the derives lay    *)
(* them out.  A struct is its fields in declaration order, an enum the     *)
(* byte of the variant's index and then the variant's payload, a String a  *)
(* compact length and then its bytes, u128 sixteen bytes little-endian.    *)

\* The k low bytes of n, lowest first.
RECURSIVE LEBytes(_, _)
LEBytes(n, k) ==
    IF k = 0 THEN <<>> ELSE <<n % 256>> \o LEBytes(n \div 256, k - 1)

\* The number whose bytes, lowest first, are bs.
RECURSIVE LEValue(_)
LEValue(bs) == IF bs = <<>> THEN 0 ELSE bs[1] + 256 * LEValue(Tail(bs))

\* bs from its (n + 1)-th byte on.
Drop(bs, n) == SubSeq(bs, n + 1, Len(bs))

\* u8::encode
EncodeU8(n) == <<n>>

\* u128::encode
EncodeU128(n) == LEBytes(n, 16)

\* Compact<u32>::encode: the two low bits of the first byte are the mode.
EncodeCompact(n) ==
    IF n < 64 THEN <<n * 4>>
    ELSE IF n < 16384 THEN LEBytes(n * 4 + 1, 2)
    ELSE IF n < 1073741824
    THEN <<(n % 64) * 4 + 2>> \o LEBytes(n \div 64, 3)
    ELSE <<3>> \o LEBytes(n, 4)

\* String::encode
EncodeString(s) == EncodeCompact(Len(s)) \o s

\* Id::encode
EncodeId(id) == EncodeString(id[1]) \o EncodeString(id[2])

\* AddAssetQuantity::encode
EncodeAddAssetQuantity(p) ==
    EncodeId(p.asset_id) \o EncodeId(p.account_id) \o EncodeU128(p.amount)

\* CreateAsset::encode
EncodeCreateAsset(p) ==
    EncodeString(p.asset_name) \o EncodeString(p.domain_id)
        \o EncodeU8(p.decimals)

\* TransferAsset::encode
EncodeTransferAsset(p) ==
    EncodeId(p.source_account_id) \o EncodeId(p.destination_account_id)
        \o EncodeId(p.asset_id) \o EncodeString(p.description)
        \o EncodeU128(p.amount)

\* The index the derive gives a variant: its place in the declaration, from 0.
VariantIndex(variant) ==
    (CHOOSE i \in 1..Len(Variants) : Variants[i] = variant) - 1

\* account::isi::CreateAccount::encode: the one field the payload has here.
EncodeCreateAccount(p) == EncodeId(p.account_id)

\* domain::isi::CreateDomain::encode: the one field the payload has here.
EncodeCreateDomain(p) == EncodeString(p.domain_name)

\* The encoding of a payload none of whose fields is kept: no bytes.
EncodeOpaque(p) == <<>>

\* Contract::encode: the byte of the variant's index, then the payload.
EncodeContract(c) ==
    <<VariantIndex(c.variant)>> \o
        CASE c.variant = "AddSignatory" -> EncodeOpaque(c.payload)
          [] c.variant = "AppendRole" -> EncodeOpaque(c.payload)
          [] c.variant = "CreateAccount" -> EncodeCreateAccount(c.payload)
          [] c.variant = "CreateRole" -> EncodeOpaque(c.payload)
          [] c.variant = "AddAssetQuantity" -> EncodeAddAssetQuantity(c.payload)
          [] c.variant = "TransferAsset" -> EncodeTransferAsset(c.payload)
          [] c.variant = "CreateAsset" -> EncodeCreateAsset(c.payload)
          [] c.variant = "CreateDomain" -> EncodeCreateDomain(c.payload)
          [] c.variant = "AddPeer" -> EncodeOpaque(c.payload)

\* A decode that failed, and one that gave val and left rest unread.
Fail == [ok |-> FALSE, val |-> <<>>, rest |-> <<>>]

Parsed(val, rest) == [ok |-> TRUE, val |-> val, rest |-> rest]

\* u8::decode
DecodeU8(bs) == IF Len(bs) < 1 THEN Fail ELSE Parsed(bs[1], Drop(bs, 1))

\* u128::decode
DecodeU128(bs) ==
    IF Len(bs) < 16 THEN Fail
    ELSE Parsed(LEValue(SubSeq(bs, 1, 16)), Drop(bs, 16))

\* Compact<u32>::decode as the length of a String.  A length not written in
\* its shortest mode is refused.  The four-byte-integer mode holds lengths
\* from 2^30 on, more bytes than any input here has, so it ends in a failure.
DecodeCompact(bs) ==
    IF Len(bs) < 1 THEN Fail
    ELSE CASE bs[1] % 4 = 0 -> Parsed(bs[1] \div 4, Drop(bs, 1))
           [] bs[1] % 4 = 1 ->
                IF Len(bs) < 2 THEN Fail
                ELSE LET x == LEValue(SubSeq(bs, 1, 2)) \div 4
                     IN  IF x > 63 THEN Parsed(x, Drop(bs, 2)) ELSE Fail
           [] bs[1] % 4 = 2 ->
                IF Len(bs) < 4 THEN Fail
                ELSE LET x == (bs[1] \div 4) + 64 * LEValue(SubSeq(bs, 2, 4))
                     IN  IF x > 16383 THEN Parsed(x, Drop(bs, 4)) ELSE Fail
           [] OTHER -> Fail

\* Whether s is well-formed UTF-8 (String::from_utf8 is Ok).
RECURSIVE IsUtf8(_)
IsUtf8(s) ==
    IF s = <<>> THEN TRUE
    ELSE IF s[1] < 128 THEN IsUtf8(Drop(s, 1))
    ELSE IF s[1] \in 194..223
    THEN Len(s) >= 2 /\ s[2] \in 128..191 /\ IsUtf8(Drop(s, 2))
    ELSE IF s[1] \in 224..239
    THEN /\ Len(s) >= 3
         /\ s[2] \in (IF s[1] = 224 THEN 160..191
                      ELSE IF s[1] = 237 THEN 128..159 ELSE 128..191)
         /\ s[3] \in 128..191
         /\ IsUtf8(Drop(s, 3))
    ELSE IF s[1] \in 240..244
    THEN /\ Len(s) >= 4
         /\ s[2] \in (IF s[1] = 240 THEN 144..191
                      ELSE IF s[1] = 244 THEN 128..143 ELSE 128..191)
         /\ s[3] \in 128..191
         /\ s[4] \in 128..191
         /\ IsUtf8(Drop(s, 4))
    ELSE FALSE

\* String::decode
DecodeString(bs) ==
    LET n == DecodeCompact(bs)
    IN  IF ~n.ok THEN Fail
        ELSE IF Len(n.rest) < n.val THEN Fail
        ELSE IF ~IsUtf8(SubSeq(n.rest, 1, n.val)) THEN Fail
        ELSE Parsed(SubSeq(n.rest, 1, n.val), Drop(n.rest, n.val))

\* Id::decode
DecodeId(bs) ==
    LET a == DecodeString(bs)
    IN  IF ~a.ok THEN Fail
        ELSE LET b == DecodeString(a.rest)
             IN  IF ~b.ok THEN Fail ELSE Parsed(Id(a.val, b.val), b.rest)

\* AddAssetQuantity::decode
DecodeAddAssetQuantity(bs) ==
    LET a == DecodeId(bs)
    IN  IF ~a.ok THEN Fail
        ELSE LET b == DecodeId(a.rest)
             IN  IF ~b.ok THEN Fail
                 ELSE LET c == DecodeU128(b.rest)
                      IN  IF ~c.ok THEN Fail
                          ELSE Parsed([asset_id |-> a.val,
                                       account_id |-> b.val,
                                       amount |-> c.val], c.rest)

\* CreateAsset::decode
DecodeCreateAsset(bs) ==
    LET a == DecodeString(bs)
    IN  IF ~a.ok THEN Fail
        ELSE LET b == DecodeString(a.rest)
             IN  IF ~b.ok THEN Fail
                 ELSE LET c == DecodeU8(b.rest)
                      IN  IF ~c.ok THEN Fail
                          ELSE Parsed([asset_name |-> a.val,
                                       domain_id |-> b.val,
                                       decimals |-> c.val], c.rest)

\* TransferAsset::decode
DecodeTransferAsset(bs) ==
    LET a == DecodeId(bs)
    IN  IF ~a.ok THEN Fail
        ELSE LET b == DecodeId(a.rest)
    IN  IF ~b.ok THEN Fail
        ELSE LET c == DecodeId(b.rest)
    IN  IF ~c.ok THEN Fail
        ELSE LET d == DecodeString(c.rest)
    IN  IF ~d.ok THEN Fail
        ELSE LET e == DecodeU128(d.rest)
    IN  IF ~e.ok THEN Fail
        ELSE Parsed([source_account_id |-> a.val,
                     destination_account_id |-> b.val,
                     asset_id |-> c.val,
                     description |-> d.val,
                     amount |-> e.val], e.rest)

\* The payload decoded into the Contract of its variant.
Wrapped(variant, p) ==
    IF ~p.ok THEN Fail ELSE Parsed(Contract(variant, p.val), p.rest)

\* account::isi::CreateAccount::decode
DecodeCreateAccount(bs) ==
    LET a == DecodeId(bs)
    IN  IF ~a.ok THEN Fail ELSE Parsed([account_id |-> a.val], a.rest)

\* domain::isi::CreateDomain::decode
DecodeCreateDomain(bs) ==
    LET a == DecodeString(bs)
    IN  IF ~a.ok THEN Fail ELSE Parsed([domain_name |-> a.val], a.rest)

\* The decoding of a payload none of whose fields is kept: it reads no byte.
DecodeOpaque(bs) == Parsed(Opaque, bs)

\* Contract::decode: the first byte picks the variant, the payload is decoded
\* from the bytes behind it; a byte that is no variant's index is refused.
DecodeContract(bs) ==
    IF Len(bs) < 1 THEN Fail
    ELSE CASE bs[1] = VariantIndex("AddSignatory") ->
                Wrapped("AddSignatory", DecodeOpaque(Drop(bs, 1)))
           [] bs[1] = VariantIndex("AppendRole") ->
                Wrapped("AppendRole", DecodeOpaque(Drop(bs, 1)))
           [] bs[1] = VariantIndex("CreateAccount") ->
                Wrapped("CreateAccount", DecodeCreateAccount(Drop(bs, 1)))
           [] bs[1] = VariantIndex("CreateRole") ->
                Wrapped("CreateRole", DecodeOpaque(Drop(bs, 1)))
           [] bs[1] = VariantIndex("AddAssetQuantity") ->
                Wrapped("AddAssetQuantity", DecodeAddAssetQuantity(Drop(bs, 1)))
           [] bs[1] = VariantIndex("TransferAsset") ->
                Wrapped("TransferAsset", DecodeTransferAsset(Drop(bs, 1)))
           [] bs[1] = VariantIndex("CreateAsset") ->
                Wrapped("CreateAsset", DecodeCreateAsset(Drop(bs, 1)))
           [] bs[1] = VariantIndex("CreateDomain") ->
                Wrapped("CreateDomain", DecodeCreateDomain(Drop(bs, 1)))
           [] bs[1] = VariantIndex("AddPeer") ->
                Wrapped("AddPeer", DecodeOpaque(Drop(bs, 1)))
           [] OTHER -> Fail

ExpectFailed == "Failed to deserialize payload."

\* The value a conversion gave.
Value(v) == [kind |-> "Value", val |-> v]

NoValue == [kind |-> "None", val |-> <<>>]

\* decode(..).expect("Failed to deserialize payload."): the value, the bytes
\* left unread being dropped, or a panic.
Expect(r) ==
    IF r.ok THEN Value(r.val) ELSE [kind |-> "Panic", val |-> <<ExpectFailed>>]

\* From<&AddAssetQuantity> for Vec<u8>
AddAssetQuantityIntoBytes(command_payload) ==
    EncodeAddAssetQuantity(command_payload)

\* From<Vec<u8>> for AddAssetQuantity
AddAssetQuantityFromBytes(command_payload) ==
    Expect(DecodeAddAssetQuantity(command_payload))

\* From<&CreateAsset> for Vec<u8>
CreateAssetIntoBytes(command_payload) == EncodeCreateAsset(command_payload)

\* From<Vec<u8>> for CreateAsset
CreateAssetFromBytes(command_payload) ==
    Expect(DecodeCreateAsset(command_payload))

\* From<&TransferAsset> for Vec<u8>
TransferAssetIntoBytes(command_payload) ==
    EncodeTransferAsset(command_payload)

\* From<Vec<u8>> for TransferAsset
TransferAssetFromBytes(command_payload) ==
    Expect(DecodeTransferAsset(command_payload))

\* From<&Contract> for Vec<u8> handing out the bytes of the payload alone,
\* without the variant's index in front.
ContractIntoBytesPayloadOnly(command_payload) ==
    Tail(EncodeContract(command_payload))

\* From<&Contract> for Vec<u8>
ContractIntoBytes(command_payload) == EncodeContract(command_payload)

\* From<Vec<u8>> for Contract
ContractFromBytes(command_payload) == Expect(DecodeContract(command_payload))

---------------------------------------------------------------------------
(* The projections of a Contract.                                          *)

\* Relation::OwnedBy(id) and Relation::GoingTo(id)
OwnedBy(id) == <<"OwnedBy", id>>

GoingTo(id) == <<"GoingTo", id>>

\* Property::relations listing the owner before the recipient.
ContractRelationsOwnerFirst(self) ==
    IF self.variant = "TransferAsset"
    THEN <<OwnedBy(self.payload.source_account_id),
           GoingTo(self.payload.destination_account_id)>>
    ELSE <<>>

\* impl Property for Contract: relations
ContractRelations(self) ==
    IF self.variant = "TransferAsset"
    THEN <<GoingTo(self.payload.destination_account_id),
           OwnedBy(self.payload.source_account_id)>>
    ELSE <<>>

\* impl Assetibility for Contract: assets
ContractAssets(self) ==
    IF self.variant = "TransferAsset"
    THEN <<self.payload.asset_id>>
    ELSE <<>>

\* A projection not taken yet, and one taken with what it gave.
NotTaken == [taken |-> FALSE, vec |-> <<>>]

Taken(vec) == [taken |-> TRUE, vec |-> vec]

NoProjection == relations = NotTaken /\ assets = NotTaken

---------------------------------------------------------------------------
(* The invoking thread: one Contract at a time against the one world.      *)

NoCodec ==
    /\ cpc = "off"
    /\ ctype = "None"
    /\ value = <<>>
    /\ bytes = <<>>
    /\ decoded = <<>>

\* A world with no domain, no account and no asset definition.
EmptyWorld == [domains |-> {}, accounts |-> EmptyMap, definitions |-> {}]

Init ==
    /\ world = EmptyWorld
    /\ pc = "idle"
    /\ contract = NoContract
    /\ pre = EmptyWorld
    /\ result = NoResult
    /\ NoCodec
    /\ NoProjection

\* contract.invoke(&mut world_state_view)
Invoke(c) ==
    /\ pc = "idle"
    /\ LET out == ContractInvoke(c, world)
       IN  /\ world' = out.world
           /\ result' = out.result
           /\ pc' = IF out.result.kind = "Panic" THEN "panicked" ELSE "returned"
    /\ contract' = c
    /\ pre' = world
    /\ UNCHANGED <<codecVars, projectionVars>>

InvokeAddAssetQuantity == \E c \in AddAssetQuantityContracts : Invoke(c)

InvokeTransferAsset == \E c \in TransferAssetContracts : Invoke(c)

InvokeCreateAsset == \E c \in CreateAssetContracts : Invoke(c)

InvokeCreateAccount == \E c \in CreateAccountContracts : Invoke(c)

InvokeCreateDomain == \E c \in CreateDomainContracts : Invoke(c)

InvokeOpaque == \E c \in OpaqueContracts : Invoke(c)

\* The caller takes the Result and goes on to the next Contract.
Report ==
    /\ pc = "returned"
    /\ pc' = "idle"
    /\ contract' = NoContract
    /\ pre' = world
    /\ result' = NoResult
    /\ UNCHANGED <<world, codecVars, projectionVars>>

Next ==
    \/ InvokeAddAssetQuantity
    \/ InvokeTransferAsset
    \/ InvokeCreateAsset
    \/ InvokeCreateAccount
    \/ InvokeCreateDomain
    \/ InvokeOpaque
    \/ Report

Spec == Init /\ [][Next]_vars

---------------------------------------------------------------------------
(* The codec at work: a value is converted into bytes and the bytes back.  *)

NoExec ==
    /\ world = EmptyWorld
    /\ pc = "off"
    /\ contract = NoContract
    /\ pre = EmptyWorld
    /\ result = NoResult

\* The values of a type that can be constructed.
Constructible(type) ==
    CASE type = "AddAssetQuantity" -> AddAssetQuantityPayloads
      [] type = "CreateAsset" -> CreateAssetPayloads
      [] type = "TransferAsset" -> TransferAssetPayloads
      [] type = "Contract" -> Contracts

CodecTypes == {"AddAssetQuantity", "CreateAsset", "TransferAsset", "Contract"}

CodecInit ==
    /\ NoExec
    /\ cpc = "input"
    /\ ctype \in CodecTypes
    /\ value \in Constructible(ctype)
    /\ bytes = <<>>
    /\ decoded = NoValue
    /\ NoProjection

\* let bytes: Vec<u8> = (&value).into()
IntoBytes(type, into) ==
    /\ cpc = "input"
    /\ ctype = type
    /\ bytes' = into
    /\ cpc' = "encoded"
    /\ UNCHANGED <<ctype, value, decoded, execVars, projectionVars>>

\* let decoded: T = bytes.into()
FromBytes(type, from) ==
    /\ cpc = "encoded"
    /\ ctype = type
    /\ decoded' = from
    /\ cpc' = "decoded"
    /\ UNCHANGED <<ctype, value, bytes, execVars, projectionVars>>

EncodeAddAssetQuantityStep ==
    IntoBytes("AddAssetQuantity", AddAssetQuantityIntoBytes(value))

DecodeAddAssetQuantityStep ==
    FromBytes("AddAssetQuantity", AddAssetQuantityFromBytes(bytes))

EncodeCreateAssetStep == IntoBytes("CreateAsset", CreateAssetIntoBytes(value))

DecodeCreateAssetStep == FromBytes("CreateAsset", CreateAssetFromBytes(bytes))

EncodeTransferAssetStep ==
    IntoBytes("TransferAsset", TransferAssetIntoBytes(value))

DecodeTransferAssetStep ==
    FromBytes("TransferAsset", TransferAssetFromBytes(bytes))

EncodeContractStep == IntoBytes("Contract", ContractIntoBytes(value))

DecodeContractStep == FromBytes("Contract", ContractFromBytes(bytes))

CodecNext ==
    \/ EncodeAddAssetQuantityStep
    \/ DecodeAddAssetQuantityStep
    \/ EncodeCreateAssetStep
    \/ DecodeCreateAssetStep
    \/ EncodeTransferAssetStep
    \/ DecodeTransferAssetStep
    \/ EncodeContractStep
    \/ DecodeContractStep

CodecSpec == CodecInit /\ [][CodecNext]_vars

---------------------------------------------------------------------------
(* The codec on bytes that are no value's encoding: bytes arrive from      *)
(* outside and are converted.                                              *)

\* The bytes a value of a type converts into.
BytesOf(type, v) ==
    CASE type = "AddAssetQuantity" -> AddAssetQuantityIntoBytes(v)
      [] type = "CreateAsset" -> CreateAssetIntoBytes(v)
      [] type = "TransferAsset" -> TransferAssetIntoBytes(v)
      [] type = "Contract" -> ContractIntoBytes(v)

\* The encodings of a type cut short: every proper prefix, the empty
\* sequence among them.
Truncated(type) ==
    UNION {{SubSeq(BytesOf(type, v), 1, n) : n \in 0..(Len(BytesOf(type, v)) - 1)}
              : v \in Constructible(type)}

\* The encodings of a type with the first byte overwritten by 0xff: for a
\* Contract no variant's index, for a payload a length prefix in the
\* four-byte-integer mode with too few bytes behind it.
Garbled(type) ==
    {<<255>> \o Tail(BytesOf(type, v)) : v \in Constructible(type)}

\* Byte sequences that are not the encoding of any value of the type.
Malformed(type) == Truncated(type) \cup Garbled(type)

\* No value was converted: the bytes came from outside.
NoInput == <<>>

MalformedInit ==
    /\ NoExec
    /\ cpc = "encoded"
    /\ ctype \in CodecTypes
    /\ value = NoInput
    /\ bytes \in Malformed(ctype)
    /\ decoded = NoValue
    /\ NoProjection

MalformedNext ==
    \/ DecodeAddAssetQuantityStep
    \/ DecodeCreateAssetStep
    \/ DecodeTransferAssetStep
    \/ DecodeContractStep

MalformedSpec == MalformedInit /\ [][MalformedNext]_vars

---------------------------------------------------------------------------
(* The projections at work: a collaborator holds a Contract and asks which *)
(* accounts and assets it touches.                                         *)

ProjectionInit ==
    /\ world = EmptyWorld
    /\ pc = "off"
    /\ contract \in Contracts
    /\ pre = EmptyWorld
    /\ result = NoResult
    /\ NoCodec
    /\ NoProjection

\* let relations = contract.relations()
TakeRelations ==
    /\ ~relations.taken
    /\ relations' = Taken(ContractRelations(contract))
    /\ UNCHANGED <<assets, execVars, codecVars>>

\* let assets = contract.assets()
TakeAssets ==
    /\ ~assets.taken
    /\ assets' = Taken(ContractAssets(contract))
    /\ UNCHANGED <<relations, execVars, codecVars>>

ProjectionNext == TakeRelations \/ TakeAssets

ProjectionSpec == ProjectionInit /\ [][ProjectionNext]_vars

---------------------------------------------------------------------------
(* Properties of execution.  After an invoke, contract is the Contract     *)
(* invoked, pre the world it was invoked on, world the world it left and   *)
(* result what it produced.                                                *)

\* An invoke of a Contract of this variant has just ended.
Invoked(variant) == pc # "idle" /\ contract.variant = variant

\* TransferAsset was invoked with A holding g, B existing and not holding g.
TransferToNonHolder ==
    /\ Invoked("TransferAsset")
    /\ contract.payload.source_account_id
          # contract.payload.destination_account_id
    /\ Holds(pre, contract.payload.source_account_id,
             contract.payload.asset_id)
    /\ HasAccount(pre, contract.payload.destination_account_id)
    /\ ~Holds(pre, contract.payload.destination_account_id,
              contract.payload.asset_id)

\* C1: a TransferAsset from an account A holding g to another existing
\* account B not holding g succeeds; afterwards A does not hold g, B holds
\* the entry keyed g, and as many accounts hold g as before.
C1_TransferMoves ==
    TransferToNonHolder =>
        /\ result = Ok
        /\ ~Holds(world, contract.payload.source_account_id,
                  contract.payload.asset_id)
        /\ Holds(world, contract.payload.destination_account_id,
                 contract.payload.asset_id)
        /\ Cardinality(Holders(world, contract.payload.asset_id))
              = Cardinality(Holders(pre, contract.payload.asset_id))

\* C1's case: such a transfer has been made and the asset has arrived, in a
\* world where another account holds the asset too.
C1_Witness ==
    /\ TransferToNonHolder
    /\ result = Ok
    /\ Holds(world, contract.payload.destination_account_id,
             contract.payload.asset_id)
    /\ Cardinality(Holders(pre, contract.payload.asset_id)) = 2

\* C2: a TransferAsset whose source holds the asset and whose destination
\* account does not exist returns EntityNotFound(destination_account_id) and
\* leaves the world as it was.
C2_MissingDestinationNoEffect ==
    ( /\ Invoked("TransferAsset")
      /\ Holds(pre, contract.payload.source_account_id,
               contract.payload.asset_id)
      /\ ~HasAccount(pre, contract.payload.destination_account_id) )
    =>  /\ result
              = Err(EntityNotFound(contract.payload.destination_account_id))
        /\ world = pre
        /\ Holds(world, contract.payload.source_account_id,
                 contract.payload.asset_id)

\* C3: a TransferAsset whose source account does not exist returns
\* EntityNotFound(source_account_id) as a value and leaves the world as it was.
C3_MissingSourceFailsCleanly ==
    ( /\ Invoked("TransferAsset")
      /\ ~HasAccount(pre, contract.payload.source_account_id) )
    =>  /\ result = Err(EntityNotFound(contract.payload.source_account_id))
        /\ world = pre

\* C4: a TransferAsset whose source account exists and does not hold the
\* asset returns AssetNotHeld(asset_id) and leaves the world as it was.
C4_AssetNotHeldNoEffect ==
    ( /\ Invoked("TransferAsset")
      /\ HasAccount(pre, contract.payload.source_account_id)
      /\ ~Holds(pre, contract.payload.source_account_id,
                contract.payload.asset_id) )
    =>  /\ result = Err(AssetNotHeld(contract.payload.asset_id))
        /\ world = pre

\* C5: an AddAssetQuantity whose account does not exist returns
\* EntityNotFound(account_id) as a value and leaves the world as it was.
C5_AddToMissingAccount ==
    ( /\ Invoked("AddAssetQuantity")
      /\ ~HasAccount(pre, contract.payload.account_id) )
    =>  /\ result = Err(EntityNotFound(contract.payload.account_id))
        /\ world = pre

\* AddAssetQuantity was invoked on an existing account.
AddToExistingAccount ==
    /\ Invoked("AddAssetQuantity")
    /\ HasAccount(pre, contract.payload.account_id)

\* C6: an AddAssetQuantity on an existing account succeeds; afterwards the
\* account's mapping has the entry keyed asset_id (inserted or overwritten),
\* its other entries are as before, and so is every other account, and no
\* account, domain or definition has come or gone.
C6_AddAssetQuantityEffect ==
    AddToExistingAccount =>
        LET a == contract.payload.account_id
            g == contract.payload.asset_id
        IN  /\ result = Ok
            /\ DOMAIN world.accounts = DOMAIN pre.accounts
            /\ DOMAIN AssetsOf(world, a) = (DOMAIN AssetsOf(pre, a)) \cup {g}
            /\ \A k \in (DOMAIN AssetsOf(pre, a)) \ {g} :
                  AssetsOf(world, a)[k] = AssetsOf(pre, a)[k]
            /\ \A b \in (DOMAIN pre.accounts) \ {a} :
                  world.accounts[b] = pre.accounts[b]
            /\ world.domains = pre.domains
            /\ world.definitions = pre.definitions

\* C6's case: the asset was added to an account that held another asset, next
\* to another account with holdings.
C6_Witness ==
    /\ AddToExistingAccount
    /\ result = Ok
    /\ ~Holds(pre, contract.payload.account_id, contract.payload.asset_id)
    /\ DOMAIN AssetsOf(pre, contract.payload.account_id) # {}
    /\ Cardinality(DOMAIN AssetsOf(world, contract.payload.account_id)) = 2
    /\ \E b \in (DOMAIN pre.accounts) \ {contract.payload.account_id} :
          DOMAIN AssetsOf(pre, b) # {}

\* C7: invoking a Contract of a variant with no execution path returns the
\* error "Instruction is not supported yet." (the code's Err(String) for the
\* UnimplementedInstruction kind), never Ok, and leaves the world as it was.
C7_UnimplementedIsExplicit ==
    (pc # "idle" /\ contract.variant \in Unimplemented)
    =>  /\ result = Err(StringError(NotSupported))
        /\ result # Ok
        /\ world = pre

\* C7's case: an unimplemented variant was invoked on a world with holdings
\* and the error came back.
C7_Witness ==
    /\ Invoked("AddPeer")
    /\ result.kind = "Err"
    /\ \E a \in DOMAIN world.accounts : DOMAIN AssetsOf(world, a) # {}

\* C8: invoking a Contract carrying CreateAsset returns no error and
\* registers the asset definition under the named domain.
C8_CreateAssetRegisters ==
    Invoked("CreateAsset")
    =>  /\ result = Ok
        /\ Id(contract.payload.asset_name, contract.payload.domain_id)
              \in world.definitions

\* The accounts an asset instruction names: the only ones whose asset
\* mapping it may change.
Named(c) ==
    IF c.variant = "AddAssetQuantity" THEN {c.payload.account_id}
    ELSE {c.payload.source_account_id, c.payload.destination_account_id}

\* An AddAssetQuantity or a TransferAsset has just ended, well or not.
AssetInstructionInvoked ==
    Invoked("AddAssetQuantity") \/ Invoked("TransferAsset")

\* C13: no invoke takes an account or a domain away; an AddAssetQuantity or
\* a TransferAsset, ended well or not, leaves the set of accounts, the
\* domains and the definitions exactly as they were, and changes at most the
\* asset mappings of the accounts it names.
C13_EntitiesStay ==
    /\ (DOMAIN pre.accounts) \subseteq (DOMAIN world.accounts)
    /\ pre.domains \subseteq world.domains
    /\ AssetInstructionInvoked =>
          /\ DOMAIN world.accounts = DOMAIN pre.accounts
          /\ world.domains = pre.domains
          /\ world.definitions = pre.definitions
          /\ \A a \in (DOMAIN pre.accounts) \ Named(contract) :
                world.accounts[a] = pre.accounts[a]

\* C13's case: a TransferAsset to an account that does not exist has ended,
\* beside an account it does not name that has holdings, and the account it
\* was sent to still does not exist.
C13_Witness ==
    /\ Invoked("TransferAsset")
    /\ Holds(pre, contract.payload.source_account_id,
             contract.payload.asset_id)
    /\ ~HasAccount(pre, contract.payload.destination_account_id)
    /\ ~HasAccount(world, contract.payload.destination_account_id)
    /\ pre.domains # {}
    /\ \E a \in (DOMAIN world.accounts) \ Named(contract) :
          DOMAIN AssetsOf(world, a) # {}

\* The Contract c with another amount in its payload.
WithAmount(c, amount) == [c EXCEPT !.payload.amount = amount]

\* C14: the amount of an AddAssetQuantity or a TransferAsset has no part in
\* what the invoke leaves or produces: any other amount gives the same world
\* and the same result (so a transfer moves the whole holding whatever its
\* amount); and an AddAssetQuantity made a second time on an existing
\* account, with any two amounts, leaves the world the first one left.
C14_PresenceNotCounter ==
    /\ AssetInstructionInvoked =>
          \A amount \in Amounts :
              ContractInvoke(WithAmount(contract, amount), pre)
                  = Outcome(world, result)
    /\ AddToExistingAccount =>
          \A first, second \in Amounts :
              LET once == ContractInvoke(WithAmount(contract, first), pre)
                  twice ==
                      ContractInvoke(WithAmount(contract, second), once.world)
              IN  /\ once.result = Ok
                  /\ twice.result = Ok
                  /\ twice.world = once.world
                  /\ once.world = world

\* C14's case: an AddAssetQuantity with an amount that is not zero was made
\* on an account that held the asset already, and nothing changed.
C14_Witness ==
    /\ AddToExistingAccount
    /\ contract.payload.amount = 20002
    /\ Holds(pre, contract.payload.account_id, contract.payload.asset_id)
    /\ result = Ok
    /\ world = pre

\* C16: every entry of every account's asset mapping is stored under the
\* key that is its Asset's id.
C16_KeyAndHandleAgree ==
    \A a \in DOMAIN world.accounts :
        \A k \in DOMAIN AssetsOf(world, a) : AssetsOf(world, a)[k].id = k

\* C16's case: an asset arrived at an account by transfer while its source
\* kept another holding.
C16_Witness ==
    /\ Invoked("TransferAsset")
    /\ result = Ok
    /\ contract.payload.source_account_id
          # contract.payload.destination_account_id
    /\ Holds(world, contract.payload.destination_account_id,
             contract.payload.asset_id)
    /\ DOMAIN AssetsOf(world, contract.payload.source_account_id) # {}

\* How many accounts of w hold g.
Count(w, g) == Cardinality(Holders(w, g))

\* C17: a TransferAsset never raises the number of holdings of any asset; it
\* leaves the number of holdings of the asset it moves unchanged when the
\* destination does not hold that asset, and lowers it by exactly one when
\* source and destination differ and the destination's entry is overwritten
\* by the source's; so the number of holdings of an asset rises only at an
\* AddAssetQuantity, and by one.
C17_TransferNeverCreates ==
    /\ Invoked("TransferAsset") =>
          LET g == contract.payload.asset_id
              src == contract.payload.source_account_id
              dst == contract.payload.destination_account_id
          IN  /\ \A h \in AssetIds : Count(world, h) <= Count(pre, h)
              /\ ~Holds(pre, dst, g) => Count(world, g) = Count(pre, g)
              /\ (src # dst /\ Holds(pre, src, g) /\ Holds(pre, dst, g))
                    => Count(world, g) = Count(pre, g) - 1
    /\ \A h \in AssetIds :
          Count(world, h) > Count(pre, h)
              => /\ Invoked("AddAssetQuantity")
                 /\ Count(world, h) = Count(pre, h) + 1

\* TransferAsset was invoked with source and destination the same account,
\* which holds the asset.
SelfTransfer ==
    /\ Invoked("TransferAsset")
    /\ contract.payload.source_account_id
          = contract.payload.destination_account_id
    /\ Holds(pre, contract.payload.source_account_id,
             contract.payload.asset_id)

\* C18: a TransferAsset from an account holding the asset to itself
\* succeeds and leaves the world as it was; the account still holds the
\* asset.
C18_SelfTransferIsNoOp ==
    SelfTransfer =>
        /\ result = Ok
        /\ world = pre
        /\ Holds(world, contract.payload.source_account_id,
                 contract.payload.asset_id)

\* C18's case: such a transfer was made by an account with two holdings and
\* has returned.
C18_Witness ==
    /\ SelfTransfer
    /\ pc = "returned"
    /\ Cardinality(DOMAIN AssetsOf(pre, contract.payload.source_account_id))
          = 2

---------------------------------------------------------------------------
(* Properties of the codec.                                                *)

\* C10: the bytes a constructible AddAssetQuantity, CreateAsset or
\* TransferAsset payload, or a Contract of any of the nine variants, converts
\* into convert back into a value equal to it, field for field and, for a
\* Contract, of the same variant.
C10_CodecRoundTrip ==
    cpc = "decoded" =>
        /\ decoded = Value(value)
        /\ ctype = "Contract" => decoded.val.variant = value.variant

\* C10's case: a Contract carrying a TransferAsset with a description of the
\* greatest length and a two-byte amount went through both conversions.
C10_Witness ==
    /\ cpc = "decoded"
    /\ ctype = "Contract"
    /\ value.variant = "TransferAsset"
    /\ Len(value.payload.description) = MaxStrLen
    /\ value.payload.amount = 20002
    /\ decoded.kind = "Value"
    /\ decoded.val.variant = "TransferAsset"
    /\ decoded.val.payload.amount = 20002
    /\ Len(bytes) > 16

\* The typed error the specification asks of a failed decode.
DecodeError == [kind |-> "Err", val |-> <<"DecodeError">>]

\* C11: converting bytes that are not the encoding of any value (of
\* Contract, AddAssetQuantity, CreateAsset or TransferAsset) gives the
\* caller a DecodeError value: no panic, and no object.
C11_MalformedIsAnErrorValue ==
    (cpc = "decoded" /\ value = NoInput) => decoded = DecodeError

---------------------------------------------------------------------------
(* Properties of the projections.                                          *)

\* C12: for a Contract carrying TransferAsset, relations gives exactly
\* GoingTo(destination_account_id) and then OwnedBy(source_account_id), and
\* assets gives exactly asset_id; for every other variant both give the
\* empty sequence.
C12_Projections ==
    /\ relations.taken =>
          IF contract.variant = "TransferAsset"
          THEN /\ Len(relations.vec) = 2
               /\ relations.vec[1]
                     = GoingTo(contract.payload.destination_account_id)
               /\ relations.vec[2]
                     = OwnedBy(contract.payload.source_account_id)
          ELSE relations.vec = <<>>
    /\ assets.taken =>
          IF contract.variant = "TransferAsset"
          THEN assets.vec = <<contract.payload.asset_id>>
          ELSE assets.vec = <<>>

\* C12's case: both projections were taken of a TransferAsset between two
\* different accounts.
C12_Witness ==
    /\ relations.taken
    /\ assets.taken
    /\ contract.variant = "TransferAsset"
    /\ contract.payload.source_account_id
          # contract.payload.destination_account_id
    /\ Len(relations.vec) = 2
    /\ Len(assets.vec) = 1

============================================================================
